---- MODULE Spec2Model ----
(***************************************************************************)
(* Model of the ensemble fake-review classifier                            *)
(* (app/classifier/__init__.py: FakeReviewClassifier), its configuration   *)
(* (app/config.py: Settings) and the artifacts it persists with joblib.    *)
(*                                                                         *)
(* Numbers: probabilities and weights are kept as integers.  A base model  *)
(* probability p is p/100, a weight w is w/100, the ensemble probability,  *)
(* the thresholds and the confidence are x/10000.                          *)
(***************************************************************************)
EXTENDS Integers, Sequences, FiniteSets, TLC

(* ------------------------------ bounds --------------------------------- *)
\* number of distinct n-gram terms that texts are built from
NumTerms == 2
\* number of documents of a training corpus
CorpusSize == 6
\* number of failures injected in one run (I/O errors of save and load,
\* failing fits, failing embeddings)
MaxFaults == 1

Terms == 1..NumTerms
None == "None"

(* ------------------------ program constants ---------------------------- *)
\* TfidfVectorizer(max_features=5000, ...)
max_features == 5000
\* the numerical_columns list of extract_features has 19 names
NumNumerical == 19
\* batch_preprocess concatenates the feature columns to the input frame:
\* the frame then has two columns named 'rating', and selecting the
\* numerical columns by name takes both
RatingColumns == 2
\* hidden size of the [CLS] embedding of settings.NLP_MODEL
BertWidth == 768
\* _generate_explanation: fake_probability < 0.3
GenuineCutoff == 3000
\* predict: abs(fake_probability - 0.5) * 2
ConfidenceCentre == 5000

Versions == {"v1.0"}
Files == <<"random_forest", "xgboost", "svm", "vectorizer", "ensemble_weights">>
NumFiles == Len(Files)

(* ------------------------------ Settings ------------------------------- *)
\* values of the ENSEMBLE_WEIGHTS string, already split at ","
WeightStrings ==
    { <<"0.4", "0.35", "0.25">>, <<"0.8", "0.8", "0.8">>, <<"-0.5", "1.0", "0.5">>,
      <<"0.5", "0.5">>, <<"0.4", "abc", "0.25">> }

\* values of PREDICTION_THRESHOLD
Thresholds == {5000, 2000}

\* the environments Settings() is read from: the weights or the threshold
\* differ from the default
Configurations ==
    { s \in [ENSEMBLE_WEIGHTS : WeightStrings, PREDICTION_THRESHOLD : Thresholds] :
        \/ s.ENSEMBLE_WEIGHTS = <<"0.4", "0.35", "0.25">>
        \/ s.PREDICTION_THRESHOLD = 5000 }

\* the strings float() accepts, with their values in hundredths
Floats ==
    [s \in {"0.4", "0.35", "0.25", "0.8", "-0.5", "1.0", "0.5"} |->
        CASE s = "0.4" -> 40 [] s = "0.35" -> 35 [] s = "0.25" -> 25
          [] s = "0.8" -> 80 [] s = "-0.5" -> -50 [] s = "1.0" -> 100
          [] s = "0.5" -> 50]

\* Settings.ensemble_weights_list: [float(w) for w in s.split(",")];
\* float() raises ValueError on a piece that is not a number
ensemble_weights_list(s) ==
    IF \A k \in 1..Len(s) : s[k] \in DOMAIN Floats
    THEN [ok |-> TRUE, value |-> [k \in 1..Len(s) |-> Floats[s[k]]]]
    ELSE [ok |-> FALSE, value |-> <<>>]

(* --------------------------- review inputs ----------------------------- *)
\* The named features _generate_explanation reads, as the preprocessor
\* extracted them for a review (ratios and the sentiment difference in
\* tenths); code is what the remaining numerical columns contribute to the
\* numerical part of the feature vector.
FeatureMaps ==
    { [code |-> 0, spam_phrase_count |-> 0, sentiment_rating_diff |-> 2,
       unique_word_ratio |-> 10, uppercase_ratio |-> 0, exclamation_count |-> 0,
       word_count |-> 12, all_caps_words |-> 0, has_url |-> 0],
      [code |-> 1, spam_phrase_count |-> 3, sentiment_rating_diff |-> 6,
       unique_word_ratio |-> 4, uppercase_ratio |-> 5, exclamation_count |-> 6,
       word_count |-> 5, all_caps_words |-> 4, has_url |-> 1],
      [code |-> 4, spam_phrase_count |-> 0, sentiment_rating_diff |-> 2,
       unique_word_ratio |-> 10, uppercase_ratio |-> 0, exclamation_count |-> 0,
       word_count |-> 3, all_caps_words |-> 0, has_url |-> 0] }

\* a review: the n-gram terms of its cleaned text and its named features
Reviews == [terms : SUBSET Terms, fm : FeatureMaps]

\* a training corpus: CorpusSize documents, df[t] of them containing term t;
\* the corpus uses every term, the first one in every document
Corpora == { [n |-> CorpusSize, df |-> [t \in Terms |-> IF t = 1 THEN CorpusSize ELSE 1]] }

\* the one-row frame predict builds from a review
SingleReview(r) == [n |-> 1, df |-> [t \in Terms |-> IF t \in r.terms THEN 1 ELSE 0]]

(* ---------------------------- the vectorizer --------------------------- *)
\* TfidfVectorizer(max_features=5000, ngram_range=(1, 3)), not fitted
NewVectorizer == [fitted |-> FALSE, vocab |-> {}, df |-> [t \in Terms |-> 0], n |-> 0]

\* the vocabulary is capped at max_features terms
LimitFeatures(vocab) ==
    IF Cardinality(vocab) <= max_features THEN vocab
    ELSE CHOOSE s \in SUBSET vocab : Cardinality(s) = max_features

\* TfidfVectorizer.fit_transform: learns vocabulary and document frequencies
\* from the frame it is given, replacing what it had learned before
fit_transform(vz, frame) ==
    LET vocab == LimitFeatures({t \in Terms : frame.df[t] > 0})
    IN  [fitted |-> TRUE, vocab |-> vocab,
         df |-> [t \in Terms |-> IF t \in vocab THEN frame.df[t] ELSE 0],
         n |-> frame.n]

\* the frame has no term at all: TfidfVectorizer raises "empty vocabulary"
EmptyVocabulary(frame) == \A t \in Terms : frame.df[t] = 0

(* --------------------------- the base models --------------------------- *)
Kinds == <<"rf", "xgb", "svm">>

KindIndex(kind) == CHOOSE k \in 1..Len(Kinds) : Kinds[k] = kind

\* an estimator as __init__ constructs it: not fitted
NewModel(kind) ==
    [kind |-> kind, fitted |-> FALSE, width |-> 0, vocab |-> {}, code |-> 0]

\* what fitting on (X_train, y_train) learns: deterministic
\* (random_state=42), a function of the estimator and the training data
LearnedCode(kind, X) == 2 ^ (KindIndex(kind) - 1) + X.bert

\* estimator.fit(X_train, y_train); width is n_features_in_, vocab the
\* vocabulary whose columns the estimator was fitted on
Fit(kind, X) ==
    [kind |-> kind, fitted |-> TRUE, width |-> X.width, vocab |-> X.vocab,
     code |-> LearnedCode(kind, X)]

ProbGrid == <<0, 25, 50, 75, 100>>

\* estimator.predict_proba(features)[0, 1]: NotFittedError before fit,
\* ValueError when the number of columns is not the one seen in fit
predict_proba(m, features) ==
    IF ~m.fitted THEN [ok |-> FALSE, err |-> "NotFittedError", p |-> 0]
    ELSE IF features.width # m.width THEN [ok |-> FALSE, err |-> "ValueError", p |-> 0]
    ELSE [ok |-> TRUE, err |-> None,
          p |-> ProbGrid[((m.code * features.key + 2) % Len(ProbGrid)) + 1]]

(* ------------------------- feature extraction -------------------------- *)
RECURSIVE SumOver(_, _)
SumOver(S, f) ==
    IF S = {} THEN 0
    ELSE LET x == CHOOSE e \in S : TRUE IN f[x] + SumOver(S \ {x}, f)

\* the tf-idf block of a frame under a fitted vectorizer: a term of the
\* vocabulary weighs more the rarer it was in the fitted corpus, and a
\* block whose terms all have the same weight normalises to the same row
TfidfKey(vz, frame) ==
    SumOver({t \in vz.vocab : frame.df[t] > 0},
            [t \in Terms |-> vz.n - vz.df[t]])

\* outcomes of get_bert_embedding over the rows of a frame: every row gets
\* its embedding, every row falls back to the empty array, or some rows do
\* and some do not
Embeddings == {"ok", "none", "ragged"}

NoFeatures == [width |-> 0, vocab |-> {}, bert |-> 0, rows |-> 0, key |-> 0]

\* extract_features: preprocess (detect_duplicates fits a vectorizer of its
\* own and raises on a frame without terms), fit_transform of
\* self.vectorizer, the numerical columns, and the BERT block if enabled.
\* Returns the features and the vectorizer the instance is left with.
ExtractFeatures(c, frame, numcode, emb) ==
    IF EmptyVocabulary(frame)
    THEN [ok |-> FALSE, err |-> "ValueError", vectorizer |-> c.vectorizer,
          features |-> NoFeatures]
    ELSE LET vz == fit_transform(c.vectorizer, frame)
             bertCols == IF c.use_bert /\ emb = "ok" THEN BertWidth ELSE 0
             bert == IF bertCols > 0 THEN 1 ELSE 0
         IN  IF c.use_bert /\ emb = "ragged" /\ frame.n > 1
             THEN [ok |-> FALSE, err |-> "ValueError", vectorizer |-> vz,
                   features |-> NoFeatures]
             ELSE [ok |-> TRUE, err |-> None, vectorizer |-> vz,
                   features |->
                     [width |-> Cardinality(vz.vocab) + (NumNumerical - 1) + RatingColumns
                                  + bertCols,
                      vocab |-> vz.vocab, bert |-> bert, rows |-> frame.n,
                      key |-> TfidfKey(vz, frame) + numcode + bert]]

(* ----------------------------- explanation ----------------------------- *)
Reason(text) == [text |-> text, pct |-> -1]

\* review_features.get(key, default) on a pandas Series
Get(f, key, default) == IF key \in DOMAIN f THEN f[key] ELSE default

\* a rule list that checks the sentiment mismatch before the spam phrases
Rules_Reordered(f) ==
    << [key |-> "sentiment_rating_diff", holds |-> Get(f, "sentiment_rating_diff", 0) > 5,
        text |-> "Sentiment doesn't match rating"],
       [key |-> "spam_phrase_count", holds |-> Get(f, "spam_phrase_count", 0) > 2,
        text |-> "Contains multiple spam phrases"],
       [key |-> "unique_word_ratio", holds |-> Get(f, "unique_word_ratio", 10) < 5,
        text |-> "Low vocabulary diversity (repetitive text)"],
       [key |-> "uppercase_ratio", holds |-> Get(f, "uppercase_ratio", 0) > 3,
        text |-> "Excessive use of capital letters"],
       [key |-> "exclamation_count", holds |-> Get(f, "exclamation_count", 0) > 5,
        text |-> "Excessive use of exclamation marks"],
       [key |-> "word_count", holds |-> Get(f, "word_count", 0) < 10,
        text |-> "Review is suspiciously short"],
       [key |-> "all_caps_words", holds |-> Get(f, "all_caps_words", 0) > 3,
        text |-> "Multiple words in ALL CAPS"],
       [key |-> "has_url", holds |-> Get(f, "has_url", 0) = 1, text |-> "Contains URLs"] >>

\* the rules of _generate_explanation after the early return, in order; the
\* ratios and the sentiment difference are in tenths
Rules(f) ==
    << [key |-> "spam_phrase_count", holds |-> Get(f, "spam_phrase_count", 0) > 2,
        text |-> "Contains multiple spam phrases"],
       [key |-> "sentiment_rating_diff", holds |-> Get(f, "sentiment_rating_diff", 0) > 5,
        text |-> "Sentiment doesn't match rating"],
       [key |-> "unique_word_ratio", holds |-> Get(f, "unique_word_ratio", 10) < 5,
        text |-> "Low vocabulary diversity (repetitive text)"],
       [key |-> "uppercase_ratio", holds |-> Get(f, "uppercase_ratio", 0) > 3,
        text |-> "Excessive use of capital letters"],
       [key |-> "exclamation_count", holds |-> Get(f, "exclamation_count", 0) > 5,
        text |-> "Excessive use of exclamation marks"],
       [key |-> "word_count", holds |-> Get(f, "word_count", 0) < 10,
        text |-> "Review is suspiciously short"],
       [key |-> "all_caps_words", holds |-> Get(f, "all_caps_words", 0) > 3,
        text |-> "Multiple words in ALL CAPS"],
       [key |-> "has_url", holds |-> Get(f, "has_url", 0) = 1, text |-> "Contains URLs"] >>

RECURSIVE Fired(_, _)
Fired(rules, k) ==
    IF k > Len(rules) THEN <<>>
    ELSE (IF rules[k].holds THEN <<Reason(rules[k].text)>> ELSE <<>>)
         \o Fired(rules, k + 1)

\* the keys _generate_explanation looks up in review_features, in order:
\* none when it returns early
rules_evaluated(f, fake_probability) ==
    IF fake_probability < GenuineCutoff THEN <<>>
    ELSE [k \in 1..Len(Rules(f)) |-> Rules(f)[k].key]

\* a generator that appends the genuine message and forgets to return
generate_explanation_NoReturn(f, fake_probability) ==
    LET genuine == IF fake_probability < GenuineCutoff
                   THEN <<Reason("Review appears genuine")>> ELSE <<>>
        reasons == genuine \o Fired(Rules(f), 1)
    IN  IF reasons = <<>>
        THEN << [text |-> "Statistical pattern matches fake reviews",
                 pct |-> fake_probability] >>
        ELSE reasons

\* _generate_explanation(review_features, fake_probability); the generic
\* message embeds the probability formatted as a percentage with two
\* decimals, which is the probability in 1/10000
generate_explanation(f, fake_probability) ==
    IF fake_probability < GenuineCutoff
    THEN <<Reason("Review appears genuine")>>
    ELSE LET reasons == Fired(Rules(f), 1)
         IN  IF reasons = <<>>
             THEN << [text |-> "Statistical pattern matches fake reviews",
                      pct |-> fake_probability] >>
             ELSE reasons

(* ------------------------------- predict ------------------------------- *)
Abs(x) == IF x < 0 THEN -x ELSE x

\* a weighted sum that pairs the weights with the models in another order
EnsembleProba_WrongOrder(w, p) == w[3] * p[1] + w[2] * p[2] + w[1] * p[3]

\* w[0] * rf_proba + w[1] * xgb_proba + w[2] * svm_proba
EnsembleProba(w, p) == w[1] * p[1] + w[2] * p[2] + w[3] * p[3]

\* a decision rule that excludes the boundary
IsFake_Strict(fake_probability, threshold) == fake_probability > threshold

\* fake_probability >= settings.PREDICTION_THRESHOLD
IsFake(fake_probability, threshold) == fake_probability >= threshold

\* abs(fake_probability - 0.5) * 2
Confidence(fake_probability) == Abs(fake_probability - ConfidenceCentre) * 2

NoResult ==
    [fake_probability |-> 0, is_fake |-> FALSE, confidence |-> 0,
     model_probabilities |-> <<0, 0, 0>>, reasons |-> <<>>]

Raised(err, vz, handed) ==
    [ok |-> FALSE, err |-> err, vectorizer |-> vz, handed |-> handed,
     result |-> NoResult]

\* FakeReviewClassifier.predict on classifier c: what it returns or raises,
\* the vectorizer it leaves behind, and the features it handed to the base
\* models (width 0 when it never got that far)
Predict(c, r, emb, threshold) ==
    LET ef == ExtractFeatures(c, SingleReview(r), r.fm.code, emb)
        rf == predict_proba(c.rf_model, ef.features)
        xgb == predict_proba(c.xgb_model, ef.features)
        svm == predict_proba(c.svm_model, ef.features)
        w == c.ensemble_weights
        p == <<rf.p, xgb.p, svm.p>>
        fake_probability == EnsembleProba(w, p)
    IN  IF ~ef.ok THEN Raised(ef.err, ef.vectorizer, NoFeatures)
        ELSE IF ~rf.ok THEN Raised(rf.err, ef.vectorizer, ef.features)
        ELSE IF ~xgb.ok THEN Raised(xgb.err, ef.vectorizer, ef.features)
        ELSE IF ~svm.ok THEN Raised(svm.err, ef.vectorizer, ef.features)
        ELSE IF Len(w) < 3 THEN Raised("IndexError", ef.vectorizer, ef.features)
        ELSE [ok |-> TRUE, err |-> None, vectorizer |-> ef.vectorizer,
              handed |-> ef.features,
              result |->
                [fake_probability |-> fake_probability,
                 is_fake |-> IsFake(fake_probability, threshold),
                 confidence |-> Confidence(fake_probability),
                 model_probabilities |-> p,
                 reasons |-> generate_explanation(r.fm, fake_probability)]]

(* ------------------------------- state --------------------------------- *)
VARIABLES
    settings,   \* the module-level Settings object, read from the environment
    clf,        \* <<c>>: the live FakeReviewClassifier, <<>>: none constructed
    X,          \* <<features>>: the matrix extract_features last returned for a corpus
    disk,       \* disk[version][k]: <<>> or <<file>>, file k of the version
    bert,       \* the environment can load the BERT model
    faults,     \* failures the environment may still inject
    saved,      \* saved[version]: the last save call of the version and the
                \* instance as that call found it
    lifecycle,  \* Uninitialized / Fitted / Loaded, as the spec names the states
    cleanFit,   \* train() fitted the models on X of the current vectorizer, and
                \* only predict and save were called since
    last        \* the last call and what it returned or raised

\* the classifier service: the module-level instance, its settings and its disk
classifierVars ==
    <<settings, bert, clf, X, disk, faults, saved, lifecycle, cleanFit, last>>

\* The other components of the repository; each is exercised by a
\* specification of its own and is idle (not called) in the others.
VARIABLES
    explain,    \* a call of _generate_explanation: its arguments and its return
    dedup,      \* a call of detect_duplicates: the frame and the flags it gets
    cleaned,    \* a text and the number of times clean_text was applied to it
    batch,      \* a batch prediction: the operation, its rows and what it gave
    request,    \* the last POST /check: the body, the answer, and how far it got
    threads,    \* threads[i]: a predict call of thread i on the shared instance
    pipeline,   \* the single-model path: main's training run and a ReviewPredictor
    trainer,    \* a ModelTrainer and the results of its last train_all_models
    encoder,    \* a ModelTrainer's label encoder and the codes it has handed out
    api,        \* the last APIClient request: the transport's script and the outcome
    deletions   \* the deletion_requests table and the request_deletion calls in flight

componentVars ==
    <<explain, dedup, cleaned, batch, request, threads, pipeline, trainer, encoder, api,
      deletions>>

vars == <<classifierVars, componentVars>>

\* a component nobody has called
Idle == <<>>

\* every component but the named one is idle
OthersIdle(name) ==
    /\ (IF name = "explain" THEN TRUE ELSE explain = Idle)
    /\ (IF name = "dedup" THEN TRUE ELSE dedup = Idle)
    /\ (IF name = "clean_text" THEN TRUE ELSE cleaned = Idle)
    /\ (IF name = "batch" THEN TRUE ELSE batch = Idle)
    /\ (IF name = "check" THEN TRUE ELSE request = Idle)
    /\ (IF name = "threads" THEN TRUE ELSE threads = Idle)
    /\ (IF name = "pipeline" THEN TRUE ELSE pipeline = Idle)
    /\ (IF name = "trainer" THEN TRUE ELSE trainer = Idle)
    /\ (IF name = "encoder" THEN TRUE ELSE encoder = Idle)
    /\ (IF name = "api" THEN TRUE ELSE api = Idle)
    /\ (IF name = "deletions" THEN TRUE ELSE deletions = Idle)

\* a step of the named component leaves the other components alone
OthersUnchanged(name) ==
    /\ (IF name = "explain" THEN TRUE ELSE UNCHANGED explain)
    /\ (IF name = "dedup" THEN TRUE ELSE UNCHANGED dedup)
    /\ (IF name = "clean_text" THEN TRUE ELSE UNCHANGED cleaned)
    /\ (IF name = "batch" THEN TRUE ELSE UNCHANGED batch)
    /\ (IF name = "check" THEN TRUE ELSE UNCHANGED request)
    /\ (IF name = "threads" THEN TRUE ELSE UNCHANGED threads)
    /\ (IF name = "pipeline" THEN TRUE ELSE UNCHANGED pipeline)
    /\ (IF name = "trainer" THEN TRUE ELSE UNCHANGED trainer)
    /\ (IF name = "encoder" THEN TRUE ELSE UNCHANGED encoder)
    /\ (IF name = "api" THEN TRUE ELSE UNCHANGED api)
    /\ (IF name = "deletions" THEN TRUE ELSE UNCHANGED deletions)

ComponentsIdle == OthersIdle("classifier")

NoTest == [p |-> <<0, 0, 0>>, ensemble_proba |-> 0, ensemble_pred |-> 0]

Call(op, ok, err) ==
    [op |-> op, ok |-> ok, err |-> err, version |-> None, wasFresh |-> FALSE,
     width |-> 0]

NoSave ==
    [call |-> 0, written |-> 0, lifecycle |-> None, cleanFit |-> FALSE, c |-> <<>>]

\* FakeReviewClassifier.__init__
NewClassifier(weights) ==
    [vectorizer |-> NewVectorizer,
     rf_model |-> NewModel("rf"),
     xgb_model |-> NewModel("xgb"),
     svm_model |-> NewModel("svm"),
     ensemble_weights |-> weights,
     use_bert |-> FALSE]

\* the instance is as __init__ left it
IsFresh(c) == c = NewClassifier(c.ensemble_weights)

NoDisk == [v \in Versions |-> [k \in 1..NumFiles |-> <<>>]]

Default == [ENSEMBLE_WEIGHTS |-> <<"0.4", "0.35", "0.25">>, PREDICTION_THRESHOLD |-> 5000]

\* the environments of a run: any configuration; or the default one with
\* the BERT model available; or the default one with failures injected
Environments ==
    [settings : Configurations, bert : {FALSE}, faults : {0}]
    \cup [settings : {Default}, bert : {TRUE}, faults : {0}]
    \cup [settings : {Default}, bert : {FALSE}, faults : {MaxFaults}]

Init ==
    /\ \E e \in Environments :
          settings = e.settings /\ bert = e.bert /\ faults = e.faults
    /\ clf = <<>>
    /\ X = <<>>
    /\ disk = NoDisk
    /\ saved = [v \in Versions |-> NoSave]
    /\ lifecycle = None
    /\ cleanFit = FALSE
    /\ last = Call("start", TRUE, None)
    /\ ComponentsIdle

\* an injected failure is counted against MaxFaults
Fault(injected) ==
    /\ injected => faults > 0
    /\ faults' = IF injected THEN faults - 1 ELSE faults

(* ------------------------------ operations ----------------------------- *)
\* classifier = FakeReviewClassifier(): a new instance replaces the live one;
\* ensemble_weights_list raising leaves no instance
Construct ==
    LET w == ensemble_weights_list(settings.ENSEMBLE_WEIGHTS)
    IN  /\ clf' = IF w.ok THEN <<NewClassifier(w.value)>> ELSE <<>>
        /\ lifecycle' = IF w.ok THEN "Uninitialized" ELSE None
        /\ cleanFit' = FALSE
        /\ X' = <<>>
        /\ last' = Call("construct", w.ok, IF w.ok THEN None ELSE "ValueError")
        /\ UNCHANGED <<componentVars, settings, bert, disk, faults, saved>>

\* enable_bert: loading the tokenizer and the model works or raises inside
\* the try block
EnableBert(loaded) ==
    /\ clf # <<>>
    /\ loaded => bert
    /\ clf' = <<[clf[1] EXCEPT !.use_bert = loaded]>>
    /\ cleanFit' = FALSE
    /\ last' = Call("enable_bert", TRUE, None)
    /\ UNCHANGED <<componentVars, settings, bert, X, disk, faults, saved, lifecycle>>

\* classifier.extract_features(df) on a training corpus
ExtractCorpus(corpus, emb) ==
    /\ clf # <<>>
    /\ emb # "ok" => clf[1].use_bert
    /\ Fault(emb # "ok")
    /\ LET ef == ExtractFeatures(clf[1], corpus, 0, emb)
       IN  /\ clf' = <<[clf[1] EXCEPT !.vectorizer = ef.vectorizer]>>
           /\ X' = IF ef.ok THEN <<ef.features>> ELSE X
           /\ last' = Call("extract_features", ef.ok, ef.err)
    /\ cleanFit' = FALSE
    /\ UNCHANGED <<componentVars, settings, bert, disk, saved, lifecycle>>

\* classifier.predict(review_text, rating)
PredictCall(r, emb) ==
    /\ clf # <<>>
    /\ emb # "ok" => clf[1].use_bert
    /\ Fault(emb # "ok")
    /\ LET out == Predict(clf[1], r, emb, settings.PREDICTION_THRESHOLD)
       IN  /\ clf' = <<[clf[1] EXCEPT !.vectorizer = out.vectorizer]>>
           /\ last' = [Call("predict", out.ok, out.err) EXCEPT
                         !.width = out.handed.width]
    /\ UNCHANGED <<componentVars, settings, bert, X, disk, saved, lifecycle, cleanFit>>

\* what can stop train(): the stratified split, or the fit or scoring of
\* one of the three estimators
TrainFailures == {"none", "split", "rf", "xgb", "svm"}

\* the estimators train() has fitted when it stops at failure point f
FittedBy(f) ==
    CASE f = "split" -> {}
      [] f = "rf"    -> {}
      [] f = "xgb"   -> {"rf"}
      [] f = "svm"   -> {"rf", "xgb"}
      [] f = "none"  -> {"rf", "xgb", "svm"}

\* FakeReviewClassifier.train(X, y) on classifier c: the instance it leaves,
\* whether it returned, and the ensemble score of a row of the test split
Train(c, features, f, threshold) ==
    LET fit(kind, old) == IF kind \in FittedBy(f) THEN Fit(kind, features) ELSE old
        c1 == [c EXCEPT !.rf_model = fit("rf", @),
                        !.xgb_model = fit("xgb", @),
                        !.svm_model = fit("svm", @)]
        w == c.ensemble_weights
        p == <<predict_proba(c1.rf_model, features).p,
               predict_proba(c1.xgb_model, features).p,
               predict_proba(c1.svm_model, features).p>>
        ensemble_proba == EnsembleProba(w, p)
    IN  IF f # "none" THEN [ok |-> FALSE, err |-> "ValueError", c |-> c1, test |-> NoTest]
        ELSE IF Len(w) < 3 THEN [ok |-> FALSE, err |-> "IndexError", c |-> c1, test |-> NoTest]
        ELSE [ok |-> TRUE, err |-> None, c |-> c1,
              test |-> [p |-> p, ensemble_proba |-> ensemble_proba,
                        ensemble_pred |->
                          IF IsFake(ensemble_proba, threshold) THEN 1 ELSE 0]]

\* classifier.train(features, y) with the matrix extract_features returned
TrainCall(f) ==
    /\ clf # <<>>
    /\ X # <<>>
    /\ Fault(f # "none")
    /\ LET t == Train(clf[1], X[1], f, settings.PREDICTION_THRESHOLD)
       IN  /\ clf' = <<t.c>>
           /\ lifecycle' = IF t.ok THEN "Fitted" ELSE lifecycle
           /\ cleanFit' = (/\ t.ok
                           /\ clf[1].vectorizer.vocab = X[1].vocab
                           /\ clf[1].vectorizer.n = X[1].rows)
           /\ last' = Call("train", t.ok, t.err)
    /\ UNCHANGED <<componentVars, settings, bert, X, disk, saved>>

\* the attribute each file of a version holds, in the order save writes
\* and load reads them
Attr == <<"rf_model", "xgb_model", "svm_model", "vectorizer", "ensemble_weights">>

\* the number of a save call that writes the first `written` files: the
\* least one that no file it leaves in place carries
NewCall(d, written) ==
    LET kept == {d[k][1].call : k \in {j \in (written + 1)..NumFiles : d[j] # <<>>}}
    IN  CHOOSE i \in 1..(NumFiles + 1) : i \notin kept /\ \A j \in 1..(i - 1) : j \in kept

\* FakeReviewClassifier.save(version): joblib.dump of the five attributes in
\* order; an I/O error at a dump leaves the files written before it.  A
\* file remembers the save call that wrote it.
Save(d, c, call, written) ==
    [k \in 1..NumFiles |->
        IF k <= written THEN <<[content |-> c[Attr[k]], call |-> call]>> ELSE d[k]]

SaveCall(v, written) ==
    /\ clf # <<>>
    /\ Fault(written < NumFiles)
    /\ LET call == NewCall(disk[v], written)
       IN  /\ disk' = [disk EXCEPT ![v] = Save(@, clf[1], call, written)]
           /\ saved' = [saved EXCEPT ![v] =
                          [call |-> call, written |-> written, lifecycle |-> lifecycle,
                           cleanFit |-> cleanFit,
                           c |-> IF written = NumFiles THEN clf ELSE <<>>]]
    /\ last' = [Call("save", written = NumFiles,
                     IF written = NumFiles THEN None ELSE "OSError")
                  EXCEPT !.version = v]
    /\ UNCHANGED <<componentVars, settings, bert, clf, X, lifecycle, cleanFit>>

\* the number of files load reads before it raises: it stops at the first
\* file that is missing or that joblib cannot read
Readable(d, readable) ==
    LET bad == {k \in 1..NumFiles : d[k] = <<>> \/ k > readable}
    IN  IF bad = {} THEN NumFiles
        ELSE (CHOOSE k \in bad : \A j \in bad : k <= j) - 1

\* a load that reads the five files but never assigns svm_model
Load_WithoutSvm(c, d, n) ==
    [a \in DOMAIN c |->
        IF a # "svm_model" /\ \E k \in 1..n : Attr[k] = a
        THEN d[CHOOSE k \in 1..n : Attr[k] = a][1].content
        ELSE c[a]]

\* FakeReviewClassifier.load(version): joblib.load into the five attributes
\* in order, each assigned as soon as it is read
Load(c, d, n) ==
    [a \in DOMAIN c |->
        IF \E k \in 1..n : Attr[k] = a
        THEN d[CHOOSE k \in 1..n : Attr[k] = a][1].content
        ELSE c[a]]

LoadCall(v, readable) ==
    /\ clf # <<>>
    /\ Fault(readable < NumFiles)
    /\ LET n == Readable(disk[v], readable)
       IN  /\ clf' = <<Load(clf[1], disk[v], n)>>
           /\ lifecycle' = IF n = NumFiles THEN "Loaded" ELSE lifecycle
           /\ last' = [Call("load", n = NumFiles,
                            IF n = NumFiles THEN None ELSE "FileNotFoundError")
                         EXCEPT !.version = v, !.wasFresh = IsFresh(clf[1])]
    /\ cleanFit' = FALSE
    /\ UNCHANGED <<componentVars, settings, bert, X, disk, saved>>

Next ==
    \/ Construct
    \/ \E loaded \in BOOLEAN : EnableBert(loaded)
    \/ \E corpus \in Corpora, emb \in Embeddings : ExtractCorpus(corpus, emb)
    \/ \E f \in TrainFailures : TrainCall(f)
    \/ \E r \in Reviews, emb \in Embeddings : PredictCall(r, emb)
    \/ \E v \in Versions, written \in 0..NumFiles : SaveCall(v, written)
    \/ \E v \in Versions, readable \in 0..NumFiles : LoadCall(v, readable)

Spec == Init /\ [][Next]_vars

(* ======================= properties of the classifier ================== *)
\* the five fitted artifacts of an instance
Artifacts(c) == [a \in {Attr[k] : k \in 1..NumFiles} |-> c[a]]

Models(c) == <<c.rf_model, c.xgb_model, c.svm_model>>

\* every input of a predict call: a review and what the embedding does
PredictInputs ==
    {in \in [r : Reviews, emb : Embeddings] :
        in.emb # "ok" => (clf # <<>> /\ clf[1].use_bert /\ faults > 0)}

\* what predict returns in the current state on an input
Outcome(in) == Predict(clf[1], in.r, in.emb, settings.PREDICTION_THRESHOLD)

\* the version holds the five files of its last save call, which completed
Intact(v) ==
    /\ saved[v].written = NumFiles
    /\ \A k \in 1..NumFiles : disk[v][k] # <<>> /\ disk[v][k][1].call = saved[v].call

\* C1: predict leaves the vectorizer (vocabulary and document frequencies),
\* the three base models and the ensemble weights of the instance as they
\* were before the call.
C1_PredictLeavesArtifacts ==
    [][last'.op = "predict" => Artifacts(clf'[1]) = Artifacts(clf[1])]_vars

\* C2: once train() has fitted the base models on a matrix of width W built
\* by the fitted vectorizer, every later predict hands the base models a
\* vector of width W over the vocabulary learned at fit time.
C2_FeatureWidthStable ==
    (last.op = "predict" /\ last.width > 0 /\ cleanFit)
        => /\ \A k \in 1..3 : last.width = Models(clf[1])[k].width
           /\ \A k \in 1..3 : clf[1].vectorizer.vocab = Models(clf[1])[k].vocab

\* the instance a fresh load of an intact version is compared with: the one
\* that saved the version, as it was at save time
RoundTrip(v) ==
    \A r \in Reviews :
        LET before == Predict(saved[v].c[1], r, "ok", settings.PREDICTION_THRESHOLD)
            after == Predict(clf[1], r, "ok", settings.PREDICTION_THRESHOLD)
        IN  before.ok => (after.ok /\ after.result = before.result)

FreshLoad(v) ==
    /\ last.op = "load" /\ last.ok /\ last.version = v /\ last.wasFresh
    /\ Intact(v)

C4_AtomicUnit ==
    [][/\ (last'.op = "load" /\ ~last'.ok) => Artifacts(clf'[1]) = Artifacts(clf[1])
       /\ \A v \in Versions : \A j, k \in 1..NumFiles :
             (disk'[v][j] # <<>> /\ disk'[v][k] # <<>>)
                 => disk'[v][j][1].call = disk'[v][k][1].call]_vars

\* C5: a save() on an Uninitialized classifier writes no file.
C5_SaveNeedsFitted ==
    \A v \in Versions : saved[v].lifecycle = "Uninitialized" => saved[v].written = 0

\* C6: when save() follows train() with only predict calls in between, the
\* vocabulary of the persisted vectorizer is the one the base models were
\* trained with.
C6_PersistedVocabulary ==
    \A v \in Versions :
        (Intact(v) /\ saved[v].cleanFit)
            => \A k \in 1..3 :
                  disk[v][4][1].content.vocab = Models(saved[v].c[1])[k].vocab

\* the weighted sum of the positive-class probabilities of the three base
\* models of c on a feature vector, weights in the order rf, xgb, svm
WeightedSum(c, features) ==
    c.ensemble_weights[1] * predict_proba(c.rf_model, features).p
    + c.ensemble_weights[2] * predict_proba(c.xgb_model, features).p
    + c.ensemble_weights[3] * predict_proba(c.svm_model, features).p

Handed(in) == ExtractFeatures(clf[1], SingleReview(in.r), in.r.fm.code, in.emb).features

TrainOutcome == Train(clf[1], X[1], "none", settings.PREDICTION_THRESHOLD)

\* C7: the ensemble probability predict returns, and the one train scores,
\* is w0*p_rf + w1*p_xgb + w2*p_svm, and the per-model probabilities
\* reported are these p.
C7_WeightedSum ==
    clf # <<>> =>
        /\ \A in \in PredictInputs :
              Outcome(in).ok =>
                /\ Outcome(in).result.fake_probability = WeightedSum(clf[1], Handed(in))
                /\ Outcome(in).result.model_probabilities =
                      [k \in 1..3 |-> predict_proba(Models(clf[1])[k], Handed(in)).p]
        /\ (X # <<>> /\ TrainOutcome.ok) =>
              TrainOutcome.test.ensemble_proba = WeightedSum(TrainOutcome.c, X[1])

C7_Witness ==
    /\ last.op = "predict" /\ last.ok
    /\ \E in \in PredictInputs :
          /\ Outcome(in).ok
          /\ Outcome(in).vectorizer = clf[1].vectorizer
          /\ Cardinality({Outcome(in).result.model_probabilities[k] : k \in 1..3}) = 3

\* C8: every result of predict has 0 <= fake_probability <= 1 and
\* confidence = |fake_probability - 0.5| * 2 in [0, 1].
C8_ProbabilityRange ==
    clf # <<>> =>
        \A in \in PredictInputs :
            Outcome(in).ok =>
                LET res == Outcome(in).result
                IN  /\ 0 <= res.fake_probability /\ res.fake_probability <= 10000
                    /\ res.confidence = Abs(res.fake_probability - 5000) * 2
                    /\ 0 <= res.confidence /\ res.confidence <= 10000

ValidWeights(w) ==
    /\ Len(w) = 3
    /\ \A k \in 1..3 : w[k] >= 0
    /\ w[1] + w[2] + w[3] = 100

\* C10: an instance never exists, and so predict and train never run, with
\* ensemble weights that are not three non-negative numbers summing to 1.0.
C10_WeightsValidated ==
    clf # <<>> => ValidWeights(clf[1].ensemble_weights)

(* ==================== the explanation generator alone ================== *)
\* the classifier service is not running
ClassifierIdle ==
    /\ settings = Default /\ bert = FALSE /\ faults = 0
    /\ clf = <<>> /\ X = <<>> /\ disk = NoDisk
    /\ saved = [v \in Versions |-> NoSave]
    /\ lifecycle = None /\ cleanFit = FALSE
    /\ last = Call("start", TRUE, None)

\* the keys the rules look up
RuleKeys ==
    {"spam_phrase_count", "sentiment_rating_diff", "unique_word_ratio",
     "uppercase_ratio", "exclamation_count", "word_count", "all_caps_words",
     "has_url"}

\* for each key, a value on the bound its rule compares with and the next
\* value past it
Probe ==
    [key \in RuleKeys |->
        CASE key = "spam_phrase_count" -> <<2, 3>>
          [] key = "sentiment_rating_diff" -> <<5, 6>>
          [] key = "unique_word_ratio" -> <<5, 4>>
          [] key = "uppercase_ratio" -> <<3, 4>>
          [] key = "exclamation_count" -> <<5, 6>>
          [] key = "word_count" -> <<10, 9>>
          [] key = "all_caps_words" -> <<3, 4>>
          [] key = "has_url" -> <<0, 1>>]

\* the feature maps handed to _generate_explanation: any subset of the keys
\* present, each with one of its two probe values
FeatureSpace ==
    UNION { { [key \in K |-> Probe[key][c[key]]] : c \in [K -> 1..2] } :
            K \in SUBSET RuleKeys }

\* fake_probability values, in 1/10000: around 0.3 and the two ends
ExplainProbabilities == {0, 2999, 3000, 10000}

ExplainInit ==
    /\ ClassifierIdle /\ OthersIdle("explain")
    /\ explain \in [f : FeatureSpace, fake_probability : ExplainProbabilities,
                    returned : {FALSE}, reasons : {<<>>}, evaluated : {<<>>}]

\* self._generate_explanation(review_features, fake_probability)
GenerateExplanation ==
    /\ explain # Idle
    /\ ~explain.returned
    /\ explain' = [explain EXCEPT
                     !.returned = TRUE,
                     !.reasons = generate_explanation(explain.f, explain.fake_probability),
                     !.evaluated = rules_evaluated(explain.f, explain.fake_probability)]
    /\ UNCHANGED classifierVars /\ OthersUnchanged("explain")

ExplainNext == GenerateExplanation

ExplainSpec == ExplainInit /\ [][ExplainNext]_vars

\* C11: for every feature map, when fake_probability < 0.3 the generator
\* returns exactly ["Review appears genuine"] and evaluates no other rule.
C11_GenuineOnly ==
    (explain # Idle /\ explain.returned /\ explain.fake_probability < 3000)
        => /\ explain.reasons = <<Reason("Review appears genuine")>>
           /\ explain.evaluated = <<>>

\* a call below 0.3 on a feature map whose eight rules all hold
C11_Witness ==
    /\ explain # Idle /\ explain.returned
    /\ explain.fake_probability = 2999
    /\ DOMAIN explain.f = RuleKeys
    /\ \A key \in RuleKeys : explain.f[key] = Probe[key][2]

\* the eight conditions of the rule list on a feature map, in the fixed order
RuleHolds(f) ==
    << Get(f, "spam_phrase_count", 0) > 2, Get(f, "sentiment_rating_diff", 0) > 5,
       Get(f, "unique_word_ratio", 10) < 5, Get(f, "uppercase_ratio", 0) > 3,
       Get(f, "exclamation_count", 0) > 5, Get(f, "word_count", 0) < 10,
       Get(f, "all_caps_words", 0) > 3, Get(f, "has_url", 0) = 1 >>

RuleMessages ==
    << "Contains multiple spam phrases", "Sentiment doesn't match rating",
       "Low vocabulary diversity (repetitive text)", "Excessive use of capital letters",
       "Excessive use of exclamation marks", "Review is suspiciously short",
       "Multiple words in ALL CAPS", "Contains URLs" >>

\* the positions of the rules that hold, ascending
HoldingRules(f) == SelectSeq([k \in 1..8 |-> k], LAMBDA k : RuleHolds(f)[k])

\* C12: for fake_probability >= 0.3 the list is exactly the messages of the
\* rules that hold, in the fixed order; the generic statistical-pattern
\* message, with the probability, is there if and only if no rule holds; the
\* list is never empty.
C12_RulesInOrder ==
    (explain # Idle /\ explain.returned /\ explain.fake_probability >= 3000)
        => LET held == HoldingRules(explain.f)
               generic == [text |-> "Statistical pattern matches fake reviews",
                           pct |-> explain.fake_probability]
           IN  /\ explain.reasons # <<>>
               /\ held # <<>> =>
                     explain.reasons = [k \in 1..Len(held) |-> Reason(RuleMessages[held[k]])]
               /\ held = <<>> => explain.reasons = <<generic>>
               /\ (\E k \in 1..Len(explain.reasons) : explain.reasons[k].text = generic.text)
                     <=> held = <<>>

\* a call at 0.3 on a feature map for which the first and the second rule
\* hold and no other
C12_Witness ==
    /\ explain # Idle /\ explain.returned
    /\ explain.fake_probability = 3000
    /\ HoldingRules(explain.f) = <<1, 2>>
    /\ Len(explain.reasons) = 2

(* ========================= detect_duplicates alone ===================== *)
\* the longest frame handed to detect_duplicates
MaxDocs == 3

\* a review text, as the set of the tokens TfidfVectorizer() finds in it
\* (words of two or more characters); the empty set is a text without any,
\* such as "A+" or "!!!".  Equal entries of a frame are the same string.
Documents == SUBSET Terms

\* the index of a frame of n rows: the default RangeIndex 0..n-1, or the
\* labels 1..n of a frame that was read with its own ids or filtered
Indexes(n) == { [k \in 1..n |-> k - 1], [k \in 1..n |-> k] }

DedupFrames ==
    UNION { [index : Indexes(n), docs : [1..n -> Documents]] : n \in 1..MaxDocs }

\* values of similarity_threshold, in hundredths; 0.9 is the default
SimilarityThresholds == {90, 50}

\* cosine_similarity(tfidf_matrix)[i][j] >= similarity_threshold for the rows
\* of two texts, every term weighing the same: the cosine of two 0/1 vectors
\* is |a & b| / sqrt(|a| * |b|), and a row without terms is the zero vector,
\* whose similarity with every row is 0
Similar(a, b, threshold) ==
    /\ a # {} /\ b # {}
    /\ 10000 * Cardinality(a \cap b) * Cardinality(a \cap b)
          >= threshold * threshold * Cardinality(a) * Cardinality(b)

\* ReviewPreprocessor.detect_duplicates(reviews_df, similarity_threshold):
\* duplicate_indices holds positions (0-based), and is_duplicate is
\* reviews_df.index.isin(duplicate_indices), a test on the index labels
detect_duplicates(frame, threshold) ==
    LET n == Len(frame.docs)
        duplicate_indices ==
            {j - 1 : j \in {j \in 1..n :
                \E i \in 1..(j - 1) : Similar(frame.docs[i], frame.docs[j], threshold)}}
    IN  IF \A k \in 1..n : frame.docs[k] = {}
        THEN [ok |-> FALSE, err |-> "ValueError", is_duplicate |-> <<>>]
        ELSE [ok |-> TRUE, err |-> None,
              is_duplicate |-> [k \in 1..n |-> frame.index[k] \in duplicate_indices]]

DedupInit ==
    /\ ClassifierIdle /\ OthersIdle("dedup")
    /\ dedup \in [frame : DedupFrames, similarity_threshold : SimilarityThresholds,
                  returned : {FALSE}, out : {<<>>}]

\* preprocessor.detect_duplicates(reviews_df, similarity_threshold)
DetectDuplicates ==
    /\ dedup # Idle
    /\ ~dedup.returned
    /\ dedup' = [dedup EXCEPT
                   !.returned = TRUE,
                   !.out = <<detect_duplicates(dedup.frame, dedup.similarity_threshold)>>]
    /\ UNCHANGED classifierVars /\ OthersUnchanged("dedup")

DedupNext == DetectDuplicates

DedupSpec == DedupInit /\ [][DedupNext]_vars

\* C13: detect_duplicates flags item j if and only if some earlier item
\* i < j is at least threshold-similar to j; of two equal strings at
\* positions i < j, j is flagged, and an item with no earlier similar item
\* (the first occurrence) is not.
C13_FlagsLaterDuplicate ==
    (dedup # Idle /\ dedup.returned /\ dedup.out[1].ok)
        => LET docs == dedup.frame.docs
               flag == dedup.out[1].is_duplicate
           IN  /\ \A j \in 1..Len(docs) :
                     flag[j] <=> \E i \in 1..(j - 1) :
                                    Similar(docs[i], docs[j], dedup.similarity_threshold)
               /\ \A i, j \in 1..Len(docs) : (i < j /\ docs[i] = docs[j]) => flag[j]

(* ============================ clean_text alone ========================= *)
\* the longest text handed to clean_text
MaxTextLen == 6

\* the characters of a text: a letter in both cases, the space, the
\* delimiters of an HTML tag and the at sign
Alphabet == {"w", "W", " ", "<", ">", "@"}

Texts == UNION { [1..n -> Alphabet] : n \in 0..MaxTextLen }

\* str.lower()
Lower(t) == [k \in 1..Len(t) |-> IF t[k] = "W" THEN "w" ELSE t[k]]

\* the text has the literal at position i
HasAt(t, i, literal) ==
    /\ i + Len(literal) - 1 <= Len(t)
    /\ \A k \in 1..Len(literal) : t[i + k - 1] = literal[k]

\* the last position of the run of non-space characters that position i is in
RECURSIVE RunEnd(_, _)
RunEnd(t, i) == IF i < Len(t) /\ t[i + 1] # " " THEN RunEnd(t, i + 1) ELSE i

\* http\S+|www\S+ matches at position i: the literal and at least one
\* non-space character after it
UrlAt(t, i) ==
    \/ HasAt(t, i, <<"h", "t", "t", "p">>) /\ i + 4 <= Len(t) /\ t[i + 4] # " "
    \/ HasAt(t, i, <<"w", "w", "w">>) /\ i + 3 <= Len(t) /\ t[i + 3] # " "

\* \S+@\S+ matches at position i: a non-space character, and an at sign
\* later in its run that is not the last character of the run
EmailAt(t, i) ==
    /\ t[i] # " "
    /\ \E k \in (i + 1)..(RunEnd(t, i) - 1) : t[k] = "@"

\* re.sub(pattern, '', t) for a pattern that, matching at i, runs to the end
\* of the run of non-space characters: leftmost matches, left to right
MatchesAt(pattern, t, i) ==
    IF pattern = "url" THEN UrlAt(t, i) ELSE EmailAt(t, i)

RECURSIVE SubRuns(_, _, _)
SubRuns(pattern, t, i) ==
    IF i > Len(t) THEN <<>>
    ELSE IF MatchesAt(pattern, t, i) THEN SubRuns(pattern, t, RunEnd(t, i) + 1)
    ELSE <<t[i]>> \o SubRuns(pattern, t, i + 1)

\* re.sub(r'<.*?>', '', t): from a "<" to the first ">" after it
RECURSIVE SubTags(_, _)
SubTags(t, i) ==
    IF i > Len(t) THEN <<>>
    ELSE IF t[i] = "<" /\ \E j \in (i + 1)..Len(t) : t[j] = ">"
         THEN SubTags(t, (CHOOSE j \in (i + 1)..Len(t) :
                            t[j] = ">" /\ \A h \in (i + 1)..(j - 1) : t[h] # ">") + 1)
         ELSE <<t[i]>> \o SubTags(t, i + 1)

\* ' '.join(t.split()): no space at either end, one space between words
RECURSIVE JoinSplit(_, _)
JoinSplit(t, i) ==
    IF i > Len(t) THEN <<>>
    ELSE IF t[i] = " "
         THEN (IF i > 1 /\ t[i - 1] # " " /\ \E k \in (i + 1)..Len(t) : t[k] # " "
               THEN <<" ">> ELSE <<>>) \o JoinSplit(t, i + 1)
         ELSE <<t[i]>> \o JoinSplit(t, i + 1)

\* ReviewPreprocessor.clean_text: lower case, URLs, e-mail addresses, HTML
\* tags, white space, in this order (the emoji replacements apply to none of
\* the characters of Alphabet)
clean_text(text) ==
    IF text = <<>> THEN <<>>
    ELSE LET lowered == Lower(text)
             noUrl == SubRuns("url", lowered, 1)
             noEmail == SubRuns("email", noUrl, 1)
             noTags == SubTags(noEmail, 1)
         IN  JoinSplit(noTags, 1)

\* string.punctuation, as far as Alphabet goes
Punctuation == {"<", ">", "@"}

\* text.translate(str.maketrans('', '', string.punctuation))
RECURSIVE RemovePunctuation(_, _)
RemovePunctuation(t, i) ==
    IF i > Len(t) THEN <<>>
    ELSE (IF t[i] \in Punctuation THEN <<>> ELSE <<t[i]>>) \o RemovePunctuation(t, i + 1)

\* TextPreprocessor.clean_text of the single-model pipeline: the same steps
\* (its third URL alternative https\S+ is covered by http\S+), then digits,
\* of which Alphabet has none, and punctuation, before the white space
TextPreprocessor_clean_text(text) ==
    LET lowered == Lower(text)
        noUrl == SubRuns("url", lowered, 1)
        noEmail == SubRuns("email", noUrl, 1)
        noTags == SubTags(noEmail, 1)
        noPunctuation == RemovePunctuation(noTags, 1)
    IN  JoinSplit(noPunctuation, 1)

\* the two classes that have a clean_text
Cleaners == {"ReviewPreprocessor", "TextPreprocessor"}

CleanInit ==
    /\ ClassifierIdle /\ OthersIdle("clean_text")
    /\ cleaned \in [text : Texts, calls : {0}, cleaner : Cleaners]

\* text = preprocessor.clean_text(text)
CleanText ==
    /\ cleaned # Idle
    /\ cleaned.calls < 2
    /\ cleaned' = [cleaned EXCEPT
                     !.text = IF cleaned.cleaner = "ReviewPreprocessor"
                              THEN clean_text(@) ELSE TextPreprocessor_clean_text(@),
                     !.calls = @ + 1]
    /\ UNCHANGED classifierVars /\ OthersUnchanged("clean_text")

CleanNext == CleanText

CleanSpec == CleanInit /\ [][CleanNext]_vars

\* C14: the output of ReviewPreprocessor.clean_text has no substring
\* matching the URL pattern and none matching the e-mail pattern.
C14_NoUrlNoEmail ==
    (cleaned # Idle /\ cleaned.calls > 0 /\ cleaned.cleaner = "ReviewPreprocessor")
        => \A i \in 1..Len(cleaned.text) :
              ~UrlAt(cleaned.text, i) /\ ~EmailAt(cleaned.text, i)

\* C15: clean_text applied to an output of clean_text returns it unchanged.
C15_Idempotent ==
    [][(cleaned # Idle /\ cleaned.calls > 0) => cleaned'.text = cleaned.text]_vars

(* ============================ batch prediction ========================= *)
\* the longest batch
MaxBatch == 3

\* what the single-review prediction does on a row: it classifies the review
\* as fake or as genuine, or it raises
RowKinds == {"fake", "genuine", "raises"}

Batches == UNION { [1..n -> RowKinds] : n \in 0..MaxBatch }

\* ReviewPredictor.predict_single on a row, for a model that has
\* predict_proba or has not: the label, the confidence (in hundredths) and
\* the class probabilities (<<>> when the model gives none)
predict_single(row, has_proba) ==
    IF row = "raises" THEN [ok |-> FALSE, result |-> <<>>]
    ELSE [ok |-> TRUE,
          result |-> << [original_text |-> row, prediction |-> row,
                         confidence |-> IF has_proba THEN 90 ELSE 100,
                         probabilities |-> IF has_proba
                                           THEN <<IF row = "fake" THEN 90 ELSE 10>>
                                           ELSE <<>>] >>]

\* ReviewPredictor.predict_batch: raises when no model is loaded, otherwise
\* one entry per text, an error entry where predict_single raised
predict_batch(loaded, rows, has_proba) ==
    IF ~loaded THEN [ok |-> FALSE, err |-> "ValueError", results |-> <<>>]
    ELSE [ok |-> TRUE, err |-> None,
          results |->
            [k \in 1..Len(rows) |->
                IF predict_single(rows[k], has_proba).ok
                THEN predict_single(rows[k], has_proba).result[1]
                ELSE [original_text |-> rows[k], error |-> "Exception"]]]

\* p.get(key, None) on an entry of predict_batch
EntryGet(p, key) == IF key \in DOMAIN p THEN <<p[key]>> ELSE <<>>

\* ReviewPredictor.predict_from_dataframe: the frame with a label and a
\* confidence column, and probability columns when the first prediction
\* has probabilities
predict_from_dataframe(loaded, has_column, rows, has_proba) ==
    LET batched == predict_batch(loaded, rows, has_proba)
        predictions == batched.results
        probability_columns ==
            /\ predictions # <<>>
            /\ "probabilities" \in DOMAIN predictions[1]
            /\ predictions[1].probabilities # <<>>
        row(k) ==
            [review_text |-> rows[k],
             predicted_label |-> EntryGet(predictions[k], "prediction"),
             prediction_confidence |-> EntryGet(predictions[k], "confidence")]
    IN  IF ~has_column THEN [ok |-> FALSE, err |-> "ValueError", results |-> <<>>]
        ELSE IF ~batched.ok THEN batched
        ELSE [ok |-> TRUE, err |-> None,
              results |->
                [k \in 1..Len(rows) |->
                    IF probability_columns
                    THEN [field \in DOMAIN row(k) \cup {"prob"} |->
                            IF field = "prob"
                            THEN IF "probabilities" \in DOMAIN predictions[k]
                                 THEN predictions[k].probabilities ELSE <<>>
                            ELSE row(k)[field]]
                    ELSE row(k)]]

\* classifier.predict on a row of the uploaded CSV, in 1/10000
RowPrediction(row) ==
    IF row = "fake" THEN [fake_probability |-> 7125, is_fake |-> TRUE, confidence |-> 4250]
    ELSE [fake_probability |-> 2875, is_fake |-> FALSE, confidence |-> 4250]

\* the number of entries of results that satisfy r.get('is_fake', False)
RECURSIVE CountFake(_, _)
CountFake(results, k) ==
    IF k > Len(results) THEN 0
    ELSE (IF "is_fake" \in DOMAIN results[k] /\ results[k].is_fake THEN 1 ELSE 0)
         + CountFake(results, k + 1)

\* the /batch endpoint: the HTTPException for a missing column is raised
\* inside the try block, whose except clause answers every Exception with
\* status 500; otherwise one entry per row, the reviews added to the
\* database, and the counts
batch_check(has_columns, rows) ==
    LET results ==
            [k \in 1..Len(rows) |->
                IF rows[k] = "raises" THEN [index |-> k - 1, error |-> "Exception"]
                ELSE [index |-> k - 1,
                      fake_probability |-> RowPrediction(rows[k]).fake_probability,
                      is_fake |-> RowPrediction(rows[k]).is_fake,
                      confidence |-> RowPrediction(rows[k]).confidence]]
        fake_count == CountFake(results, 1)
    IN  IF ~has_columns
        THEN [ok |-> FALSE, status |-> 500, results |-> <<>>, added |-> <<>>,
              total_reviews |-> 0, fake_count |-> 0, genuine_count |-> 0]
        ELSE [ok |-> TRUE, status |-> 200, results |-> results,
              added |-> SelectSeq(rows, LAMBDA r : r # "raises"),
              total_reviews |-> Len(results), fake_count |-> fake_count,
              genuine_count |-> Len(results) - fake_count]

BatchOperations == {"predict_batch", "predict_from_dataframe", "batch_check"}

BatchInit ==
    /\ ClassifierIdle /\ OthersIdle("batch")
    /\ batch \in [op : BatchOperations, rows : Batches, loaded : BOOLEAN,
                  has_columns : BOOLEAN, has_proba : BOOLEAN,
                  returned : {FALSE}, out : {<<>>}]
    \* an argument the operation does not have is fixed
    /\ batch.op = "predict_batch" => batch.has_columns
    /\ batch.op = "batch_check" => batch.loaded /\ batch.has_proba

\* one call of the batch operation
RunBatch ==
    /\ batch # Idle
    /\ ~batch.returned
    /\ batch' = [batch EXCEPT
          !.returned = TRUE,
          !.out = << CASE batch.op = "predict_batch" ->
                            predict_batch(batch.loaded, batch.rows, batch.has_proba)
                       [] batch.op = "predict_from_dataframe" ->
                            predict_from_dataframe(batch.loaded, batch.has_columns,
                                                   batch.rows, batch.has_proba)
                       [] batch.op = "batch_check" ->
                            batch_check(batch.has_columns, batch.rows) >>]
    /\ UNCHANGED classifierVars /\ OthersUnchanged("batch")

BatchNext == RunBatch

BatchSpec == BatchInit /\ [][BatchNext]_vars

\* what an entry of a batch output says about its row: the verdict and the
\* scores, <<>> where the entry has none
EntryView(e) ==
    [verdict |-> IF "prediction" \in DOMAIN e THEN <<e.prediction>>
                 ELSE IF "predicted_label" \in DOMAIN e THEN e.predicted_label
                 ELSE IF "is_fake" \in DOMAIN e
                      THEN <<IF e.is_fake THEN "fake" ELSE "genuine">>
                 ELSE <<>>,
     confidence |-> IF "confidence" \in DOMAIN e THEN <<e.confidence>>
                    ELSE IF "prediction_confidence" \in DOMAIN e THEN e.prediction_confidence
                    ELSE <<>>,
     probabilities |-> IF "probabilities" \in DOMAIN e THEN e.probabilities
                       ELSE IF "prob" \in DOMAIN e THEN e.prob
                       ELSE IF "fake_probability" \in DOMAIN e THEN <<e.fake_probability>>
                       ELSE <<>>]

\* the same for the single-review prediction of the row, run on its own
SingleView(op, row, has_proba) ==
    IF op = "batch_check"
    THEN [verdict |-> <<row>>, confidence |-> <<RowPrediction(row).confidence>>,
          probabilities |-> <<RowPrediction(row).fake_probability>>]
    ELSE LET r == predict_single(row, has_proba).result[1]
         IN  [verdict |-> <<r.prediction>>, confidence |-> <<r.confidence>>,
              probabilities |-> r.probabilities]

\* C16: with a model loaded and the required columns present, a batch of N
\* rows of which any subset makes the single-review prediction raise does not
\* raise and returns N entries in input order: an entry without verdict for
\* each failing row and, for every other row, the result of its
\* single-review prediction.
C16_RowsIsolated ==
    (batch # Idle /\ batch.returned /\ batch.loaded /\ batch.has_columns)
        => LET out == batch.out[1]
           IN  /\ out.ok
               /\ Len(out.results) = Len(batch.rows)
               /\ \A k \in 1..Len(batch.rows) :
                     IF batch.rows[k] = "raises"
                     THEN EntryView(out.results[k]).verdict = <<>>
                     ELSE EntryView(out.results[k])
                            = SingleView(batch.op, batch.rows[k], batch.has_proba)

(* ========================== the /check endpoint ======================== *)
\* a field the request body does not have
Missing == <<>>

\* the text field of a request body: absent, or a text with the given terms
\* ("" and a text of white space have none)
RequestTexts == {Missing} \cup {<<t>> : t \in SUBSET Terms}

\* the rating field: absent, or a number (1..5 is the valid range)
RequestRatings == {Missing} \cup {<<n>> : n \in -1..6}

\* the terms of the cleaned text
TextTerms(text) == text[1]

\* the classifier the endpoint module holds: as constructed when
\* classifier.load() failed, or trained on the corpus as train_model does
FreshClassifier == NewClassifier(ensemble_weights_list(Default.ENSEMBLE_WEIGHTS).value)

TrainedClassifier ==
    LET corpus == CHOOSE c \in Corpora : TRUE
        ef == ExtractFeatures(FreshClassifier, corpus, 0, "ok")
    IN  Train([FreshClassifier EXCEPT !.vectorizer = ef.vectorizer], ef.features,
              "none", Default.PREDICTION_THRESHOLD).c

\* check_review: FastAPI validates the body against ReviewRequest (text: str
\* and rating: float are required) and answers 422 itself; the handler then
\* calls classifier.predict, whose exception becomes a 500, saves the
\* review and answers 200.  extracted: extract_features was entered.
check_review(c, text, rating, fm) ==
    LET out == Predict(c, [terms |-> TextTerms(text), fm |-> fm], "ok",
                       Default.PREDICTION_THRESHOLD)
    IN  IF text = Missing \/ rating = Missing
        THEN [status |-> 422, extracted |-> FALSE, saved |-> FALSE, vectorizer |-> c.vectorizer]
        ELSE IF ~out.ok
        THEN [status |-> 500, extracted |-> TRUE, saved |-> FALSE, vectorizer |-> out.vectorizer]
        ELSE [status |-> 200, extracted |-> TRUE, saved |-> TRUE, vectorizer |-> out.vectorizer]

CheckInit ==
    /\ settings = Default /\ bert = FALSE /\ faults = 0
    /\ clf \in {<<FreshClassifier>>, <<TrainedClassifier>>}
    /\ X = <<>> /\ disk = NoDisk
    /\ saved = [v \in Versions |-> NoSave]
    /\ lifecycle = None /\ cleanFit = FALSE
    /\ last = Call("start", TRUE, None)
    /\ OthersIdle("check")
    /\ request = Idle

\* POST /check
CheckReview(text, rating, fm) ==
    LET answer == check_review(clf[1], text, rating, fm)
    IN  /\ request' = <<[text |-> text, rating |-> rating, status |-> answer.status,
                         extracted |-> answer.extracted, saved |-> answer.saved]>>
        /\ clf' = <<[clf[1] EXCEPT !.vectorizer = answer.vectorizer]>>
        /\ UNCHANGED <<settings, bert, X, disk, faults, saved, lifecycle, cleanFit, last>>
        /\ OthersUnchanged("check")

CheckNext ==
    \E text \in RequestTexts, rating \in RequestRatings, fm \in FeatureMaps :
        CheckReview(text, rating, fm)

CheckSpec == CheckInit /\ [][CheckNext]_vars

\* the request has no text, an empty text, or a rating that is not in [1, 5]
InputError(req) ==
    \/ req.text = Missing \/ req.rating = Missing
    \/ TextTerms(req.text) = {}
    \/ req.rating[1] \notin 1..5

\* C17: a /check request with missing or empty text, or with a rating
\* outside [1,5], is answered with a client error and never reaches feature
\* extraction.
C17_InputRejected ==
    (request # Idle /\ InputError(request[1]))
        => /\ request[1].status \in 400..499
           /\ ~request[1].extracted

(* ========================= concurrent predict ========================== *)
NumThreads == 2
ThreadIds == 1..NumThreads

\* a predict call in flight: where it is, the vocabulary its own count
\* matrix X was built with, the features it computed, and what it gave
NewThread(r) ==
    [review |-> r, pc |-> "start", vocab |-> {}, features |-> NoFeatures,
     ok |-> FALSE, err |-> None, result |-> NoResult]

ThreadRaised(th, err) == [th EXCEPT !.pc = "done", !.ok = FALSE, !.err = err]

\* the width of the idf vector the shared TfidfTransformer holds
IdfWidth(vz) == Cardinality({t \in Terms : vz.df[t] > 0})

\* the base models and the ensemble on features already extracted: the
\* part of predict after extract_features
Score(c, r, features, threshold) ==
    LET rf == predict_proba(c.rf_model, features)
        xgb == predict_proba(c.xgb_model, features)
        svm == predict_proba(c.svm_model, features)
        w == c.ensemble_weights
        p == <<rf.p, xgb.p, svm.p>>
        fake_probability == EnsembleProba(w, p)
    IN  IF ~rf.ok THEN [ok |-> FALSE, err |-> rf.err, result |-> NoResult]
        ELSE IF ~xgb.ok THEN [ok |-> FALSE, err |-> xgb.err, result |-> NoResult]
        ELSE IF ~svm.ok THEN [ok |-> FALSE, err |-> svm.err, result |-> NoResult]
        ELSE IF Len(w) < 3 THEN [ok |-> FALSE, err |-> "IndexError", result |-> NoResult]
        ELSE [ok |-> TRUE, err |-> None,
              result |->
                [fake_probability |-> fake_probability,
                 is_fake |-> IsFake(fake_probability, threshold),
                 confidence |-> Confidence(fake_probability),
                 model_probabilities |-> p,
                 reasons |-> generate_explanation(r.fm, fake_probability)]]

ConcInit ==
    /\ settings = Default /\ bert = FALSE /\ faults = 0
    /\ clf = <<TrainedClassifier>>
    /\ X = <<>> /\ disk = NoDisk
    /\ saved = [v \in Versions |-> NoSave]
    /\ lifecycle = None /\ cleanFit = FALSE
    /\ last = Call("start", TRUE, None)
    /\ OthersIdle("threads")
    /\ threads \in [ThreadIds -> {NewThread(r) : r \in Reviews}]

ConcUnchanged ==
    /\ UNCHANGED <<settings, bert, X, disk, faults, saved, lifecycle, cleanFit, last>>
    /\ OthersUnchanged("threads")

\* predict enters extract_features; preprocessing raises on a text without
\* terms; CountVectorizer.fit_transform counts the review with a vocabulary
\* of its own and stores that vocabulary on the shared vectorizer
Count(i) ==
    LET th == threads[i]
        frame == SingleReview(th.review)
        vocab == LimitFeatures({t \in Terms : frame.df[t] > 0})
    IN  /\ th.pc = "start"
        /\ IF EmptyVocabulary(frame)
           THEN /\ threads' = [threads EXCEPT ![i] = ThreadRaised(th, "ValueError")]
                /\ UNCHANGED clf
           ELSE /\ threads' = [threads EXCEPT ![i] = [th EXCEPT !.pc = "counted", !.vocab = vocab]]
                /\ clf' = <<[clf[1] EXCEPT !.vectorizer.vocab = vocab,
                                          !.vectorizer.fitted = TRUE]>>
        /\ ConcUnchanged

\* self._tfidf.fit(X): the shared transformer learns the idf vector of the
\* calling thread's count matrix
TfidfFit(i) ==
    LET th == threads[i]
        frame == SingleReview(th.review)
    IN  /\ th.pc = "counted"
        /\ threads' = [threads EXCEPT ![i] = [th EXCEPT !.pc = "fitted"]]
        /\ clf' = <<[clf[1] EXCEPT
                       !.vectorizer.df = [t \in Terms |-> IF t \in th.vocab THEN frame.df[t] ELSE 0],
                       !.vectorizer.n = frame.n]>>
        /\ ConcUnchanged

\* self._tfidf.transform(X): multiplies the thread's count matrix by the idf
\* vector the shared transformer holds now; ValueError when their widths
\* differ.  Then the numerical columns are appended.
TfidfTransform(i) ==
    LET th == threads[i]
        vz == clf[1].vectorizer
        frame == SingleReview(th.review)
        mine == [vz EXCEPT !.vocab = th.vocab]
    IN  /\ th.pc = "fitted"
        /\ IF IdfWidth(vz) # Cardinality(th.vocab)
           THEN threads' = [threads EXCEPT ![i] = ThreadRaised(th, "ValueError")]
           ELSE threads' = [threads EXCEPT ![i] = [th EXCEPT !.pc = "features",
                    !.features =
                      [width |-> Cardinality(th.vocab) + (NumNumerical - 1) + RatingColumns,
                       vocab |-> th.vocab, bert |-> 0, rows |-> frame.n,
                       key |-> TfidfKey(mine, frame) + th.review.fm.code]]]
        /\ UNCHANGED clf
        /\ ConcUnchanged

\* the three predict_proba calls, the weighted sum and the explanation
ScoreModels(i) ==
    LET th == threads[i]
        out == Score(clf[1], th.review, th.features, settings.PREDICTION_THRESHOLD)
    IN  /\ th.pc = "features"
        /\ threads' = [threads EXCEPT ![i] = [th EXCEPT !.pc = "done", !.ok = out.ok,
                                               !.err = out.err, !.result = out.result]]
        /\ UNCHANGED clf
        /\ ConcUnchanged

ConcNext ==
    \E i \in ThreadIds : Count(i) \/ TfidfFit(i) \/ TfidfTransform(i) \/ ScoreModels(i)

ConcSpec == ConcInit /\ [][ConcNext]_vars

\* what the call of thread i gives when it runs alone on the instance
Alone(i) == Predict(clf[1], threads[i].review, "ok", settings.PREDICTION_THRESHOLD)

\* C18: under every interleaving a finished predict call has the outcome it
\* has when run alone on the same fitted instance: the same result, or the
\* same failure.
C18_Independent ==
    threads # Idle =>
        \A i \in ThreadIds :
            threads[i].pc = "done" =>
                /\ threads[i].ok = Alone(i).ok
                /\ threads[i].err = Alone(i).err
                /\ threads[i].result = Alone(i).result

(* ===================== the single-model serving path =================== *)
\* the additional_feature_columns list of extract_features
additional_feature_columns ==
    {"text_length", "word_count", "avg_word_length",
     "uppercase_ratio", "exclamation_count", "question_count"}

\* feature_extraction.extract_features on a frame with the given columns
\* whose processed texts give the vocabulary: the tf-idf block, and the
\* additional columns the frame has when they are asked for
pipeline_extract_features(columns, vocab, include_additional_features) ==
    LET existing_columns == additional_feature_columns \cap columns
    IN  [vocab |-> vocab,
         width |-> Cardinality(vocab)
                     + (IF include_additional_features
                        THEN Cardinality(existing_columns) ELSE 0)]

\* a training frame: the columns it has beside the text, and the vocabulary
\* its processed texts give under the vectorizer's settings
PipelineInit ==
    /\ ClassifierIdle
    /\ OthersIdle("pipeline")
    /\ pipeline \in [columns : SUBSET additional_feature_columns,
                     vocab : (SUBSET Terms) \ {{}},
                     include_additional_features : BOOLEAN,
                     stage : {"start"},
                     n_features_in : {0},        \* of the saved best model
                     model : {FALSE}, vectorizer : {FALSE},   \* the predictor has them
                     handed : {0}, err : {None}]

PipelineUnchanged == UNCHANGED classifierVars /\ OthersUnchanged("pipeline")

\* main: extract_features, save_vectorizer, train_all_models on the
\* feature matrix, save_best_model
RunTraining ==
    /\ pipeline.stage = "start"
    /\ LET f == pipeline_extract_features(pipeline.columns, pipeline.vocab,
                                          pipeline.include_additional_features)
       IN  pipeline' = [pipeline EXCEPT !.stage = "trained", !.n_features_in = f.width]
    /\ PipelineUnchanged

\* ReviewPredictor.load_model: the model, and the vectorizer when its path
\* is given and exists
LoadModel(with_vectorizer) ==
    /\ pipeline.stage \in {"trained", "loaded", "predicted"}
    /\ pipeline' = [pipeline EXCEPT !.stage = "loaded", !.model = TRUE,
                                    !.vectorizer = with_vectorizer,
                                    !.handed = 0, !.err = None]
    /\ PipelineUnchanged

\* ReviewPredictor.predict_single: the features are
\* self.vectorizer.transform([processed_text]).toarray() and nothing else;
\* model.predict raises ValueError on a width it was not fitted with
predict_single_width(p) ==
    IF ~p.model THEN [handed |-> 0, err |-> "ValueError"]
    ELSE IF ~p.vectorizer THEN [handed |-> 0, err |-> "ValueError"]
    ELSE [handed |-> Cardinality(p.vocab),
          err |-> IF Cardinality(p.vocab) # p.n_features_in THEN "ValueError" ELSE None]

PredictSingle ==
    /\ pipeline.stage \in {"trained", "loaded", "predicted"}
    /\ LET out == predict_single_width(pipeline)
       IN  pipeline' = [pipeline EXCEPT !.stage = "predicted", !.handed = out.handed,
                                        !.err = out.err]
    /\ PipelineUnchanged

PipelineNext ==
    \/ RunTraining
    \/ \E with_vectorizer \in BOOLEAN : LoadModel(with_vectorizer)
    \/ PredictSingle

PipelineSpec == PipelineInit /\ [][PipelineNext]_vars

\* C19: when the pipeline trained with include_additional_features=True,
\* the vector predict_single hands to the loaded model has as many columns
\* as the matrix the model was trained on.
C19_SameWidth ==
    (/\ pipeline # Idle
     /\ pipeline.stage = "predicted"
     /\ pipeline.include_additional_features
     /\ pipeline.model /\ pipeline.vectorizer)
        => pipeline.handed = pipeline.n_features_in

(* ============================ ModelTrainer ============================= *)
MaxCalls == 2
MaxModels == 2

\* keys of self.models
ModelNames == {"naive_bayes", "random_forest", "svm"}

\* cross-validated accuracies, in hundredths
CvScores == {0, 50, 90}

\* what train_model does for one name: it raises, or it returns the fitted
\* model and its cv_score
TrainOutcomes ==
    {[ok |-> FALSE, cv_score |-> 0]} \cup {[ok |-> TRUE, cv_score |-> s] : s \in CvScores}

\* models_to_train: lists of distinct names
ModelLists ==
    {l \in UNION {[1..n -> ModelNames] : n \in 1..MaxModels} :
        \A i, j \in 1..Len(l) : i # j => l[i] # l[j]}

\* a fitted model object: the name it was trained under and the call that
\* fitted it (with hyperparameter_tuning, grid_search.best_estimator_ is a
\* new object in every call)
NoModel == [name |-> None, fit |-> 0]

\* ModelTrainer.__init__
NewTrainer ==
    [trained_models |-> [n \in ModelNames |-> NoModel],
     best_model |-> NoModel, best_model_name |-> None, best_score |-> 0,
     calls |-> 0, models_to_train |-> <<>>,
     results |-> [n \in ModelNames |-> [ok |-> FALSE, cv_score |-> 0]],
     \* the files main writes: the best model, one file per trained model
     saved_best |-> NoModel, saved_models |-> [n \in ModelNames |-> NoModel],
     saved_after |-> 0]

\* the loop of train_all_models from position k of the list: a model that
\* raises is logged and skipped; one that trains is stored and becomes the
\* best when its cv_score is greater than self.best_score
RECURSIVE TrainLoop(_, _, _, _)
TrainLoop(t, names, outcomes, k) ==
    IF k > Len(names) THEN t
    ELSE LET name == names[k]
             info == outcomes[name]
             model == [name |-> name, fit |-> t.calls]
             stored == [t EXCEPT !.trained_models[name] = model]
             tracked == IF info.cv_score > t.best_score
                        THEN [stored EXCEPT !.best_score = info.cv_score,
                                            !.best_model = model,
                                            !.best_model_name = name]
                        ELSE stored
         IN  TrainLoop(IF info.ok THEN tracked ELSE t, names, outcomes, k + 1)

\* train_all_models(X_train, y_train, models_to_train)
train_all_models(t, names, outcomes) ==
    TrainLoop([t EXCEPT !.calls = t.calls + 1, !.models_to_train = names,
                        !.results = [n \in ModelNames |->
                                        IF \E k \in 1..Len(names) : names[k] = n
                                        THEN outcomes[n]
                                        ELSE [ok |-> FALSE, cv_score |-> 0]]],
              names, outcomes, 1)

TrainerInit ==
    /\ ClassifierIdle
    /\ OthersIdle("trainer")
    /\ trainer = NewTrainer

TrainAllModels(names, outcomes) ==
    /\ trainer.calls < MaxCalls
    /\ trainer' = train_all_models(trainer, names, outcomes)
    /\ UNCHANGED classifierVars /\ OthersUnchanged("trainer")

\* main, step 9: save_best_model raises ValueError when best_model is
\* None; otherwise the best model is dumped, then every trained model
SaveModels ==
    /\ trainer.calls > 0
    /\ trainer.saved_after < trainer.calls
    /\ trainer.best_model # NoModel
    /\ trainer' = [trainer EXCEPT !.saved_best = trainer.best_model,
                                  !.saved_models = trainer.trained_models,
                                  !.saved_after = trainer.calls]
    /\ UNCHANGED classifierVars /\ OthersUnchanged("trainer")

TrainerNext ==
    \/ \E names \in ModelLists, outcomes \in [ModelNames -> TrainOutcomes] :
            TrainAllModels(names, outcomes)
    \/ SaveModels

TrainerSpec == TrainerInit /\ [][TrainerNext]_vars

\* the models that trained successfully in the last call
Succeeded(t) ==
    {t.models_to_train[k] : k \in {j \in 1..Len(t.models_to_train) :
                                      t.results[t.models_to_train[j]].ok}}

\* C20: after train_all_models returns with at least one model trained,
\* best_model is not None, best_score is the greatest cv_score of the models
\* trained in that call, best_model_name names a model with that score and
\* best_model is the model that call trained under that name.
C20_BestIsMaximum ==
    (trainer # Idle /\ trainer.calls > 0 /\ Succeeded(trainer) # {})
        => /\ trainer.best_model # NoModel
           /\ \A n \in Succeeded(trainer) : trainer.results[n].cv_score <= trainer.best_score
           /\ trainer.best_model_name \in Succeeded(trainer)
           /\ trainer.results[trainer.best_model_name].cv_score = trainer.best_score
           /\ trainer.best_model = [name |-> trainer.best_model_name, fit |-> trainer.calls]

\* a model of the last call's list raised in train_model
FailedAt(t, k) == k \in 1..Len(t.models_to_train) /\ ~t.results[t.models_to_train[k]].ok

\* C21: when fitting a model raises during train_all_models, the run halts:
\* no later model of the list is trained in that call and nothing is saved
\* for that run.
C21_TrainingFatal ==
    (trainer # Idle /\ trainer.calls > 0)
        => \A k \in 1..Len(trainer.models_to_train) :
              FailedAt(trainer, k) =>
                /\ \A j \in (k + 1)..Len(trainer.models_to_train) :
                      trainer.trained_models[trainer.models_to_train[j]].fit # trainer.calls
                /\ trainer.saved_after # trainer.calls

(* ============================ label encoder ============================ *)
MaxEncodes == 3

\* label strings in sorted order (FAKE_LABEL, GENUINE_LABEL and one that is
\* neither); a label is its position in this list
LabelNames == <<"CG", "OR", "other">>
Labels == 1..Len(LabelNames)

\* the label columns handed to encode_labels, by the labels they contain
LabelColumns == (SUBSET Labels) \ {{}}

\* numpy.unique(y): the labels of y in sorted order
RECURSIVE SortedLabels(_)
SortedLabels(S) ==
    IF S = {} THEN <<>>
    ELSE LET least == CHOOSE l \in S : \A o \in S : l <= o
         IN  <<least>> \o SortedLabels(S \ {least})

\* LabelEncoder.transform under classes_: the code of a label is its index
CodeOf(classes, l) == (CHOOSE k \in 1..Len(classes) : classes[k] = l) - 1

\* encode_labels(y): self.label_encoder.fit_transform(y) fits classes_ on y
\* and returns the codes of y
encode_labels(y) ==
    LET classes == SortedLabels(y)
    IN  [classes |-> classes, codes |-> {<<l, CodeOf(classes, l)>> : l \in y}]

\* decode_labels: inverse_transform raises ValueError on a code classes_
\* does not have (0 stands for the raise)
decode_labels(classes, code) ==
    IF code + 1 \in 1..Len(classes) THEN classes[code + 1] ELSE 0

EncoderInit ==
    /\ ClassifierIdle
    /\ OthersIdle("encoder")
    /\ encoder = [classes |-> <<>>, calls |-> 0, issued |-> {}, metrics |-> <<>>]

\* trainer.encode_labels(y); issued collects every <<label, code>> handed out
EncodeLabels(y) ==
    /\ encoder.calls < MaxEncodes
    /\ LET out == encode_labels(y)
       IN  encoder' = [encoder EXCEPT !.classes = out.classes,
                                      !.calls = encoder.calls + 1,
                                      !.issued = encoder.issued \cup out.codes]
    /\ UNCHANGED classifierVars /\ OthersUnchanged("encoder")

FAKE_LABEL == "CG"
GENUINE_LABEL == "OR"

\* main: ModelEvaluator(class_names=[config.GENUINE_LABEL, config.FAKE_LABEL])
class_names == <<GENUINE_LABEL, FAKE_LABEL>>

\* calculate_metrics: the per-class scores come in the order of the integer
\* codes, and entry i is stored under class_names[i]; label is what the
\* fitted encoder decodes code i to
calculate_metrics(classes) ==
    [k \in 1..(IF Len(classes) < Len(class_names) THEN Len(classes) ELSE Len(class_names)) |->
        [class_name |-> class_names[k],
         label |-> LabelNames[decode_labels(classes, k - 1)]]]

\* main, step 7: the evaluation of a trained model
Evaluate ==
    /\ encoder.calls > 0
    /\ encoder' = [encoder EXCEPT !.metrics = calculate_metrics(encoder.classes)]
    /\ UNCHANGED classifierVars /\ OthersUnchanged("encoder")

EncoderNext ==
    \/ \E y \in LabelColumns : EncodeLabels(y)
    \/ Evaluate

EncoderSpec == EncoderInit /\ [][EncoderNext]_vars

\* C22: decode_labels maps every code handed out by any earlier
\* encode_labels call on the trainer back to the label it was handed out for.
C22_DecodeEncode ==
    encoder # Idle =>
        \A pair \in encoder.issued : decode_labels(encoder.classes, pair[2]) = pair[1]

(* ============================== APIClient ============================== *)
\* stop=stop_after_attempt(3)
stop_after_attempt == 3

\* what one httpx request does: a 200 response, a 500 response, or it raises
HttpOutcomes == {"ok", "HTTP 500", "ConnectError", "ReadTimeout"}

\* httpx's exception classes: ReadTimeout is a TimeoutException, and both
\* a TimeoutException and a ConnectError are TransportErrors
IsTimeoutException(outcome) == outcome = "ReadTimeout"
IsTransportError(outcome) == outcome \in {"ConnectError", "ReadTimeout"}

\* what the transport does at each attempt
Scripts == [1..stop_after_attempt -> HttpOutcomes]

\* timeouts callers pass: DEFAULT_TIMEOUT and UPLOAD_TIMEOUT
Timeouts == {"10.0", "120.0"}

\* strings as sequences of characters
Chars(timeout) == IF timeout = "10.0" THEN <<"1", "0", ".", "0">> ELSE <<"1", "2", "0", ".", "0">>

UpperLetters == <<"A", "B", "C", "D", "E", "F", "G", "H", "I", "J", "K", "L", "M", "N", "O",
        "P", "Q", "R", "S", "T", "U", "V", "W", "X", "Y", "Z">>
LowerLetters == <<"a", "b", "c", "d", "e", "f", "g", "h", "i", "j", "k", "l", "m", "n", "o",
        "p", "q", "r", "s", "t", "u", "v", "w", "x", "y", "z">>

\* str.lower()
str_lower(t) ==
    [k \in 1..Len(t) |->
        IF \E u \in 1..Len(UpperLetters) : UpperLetters[u] = t[k]
        THEN LowerLetters[CHOOSE u \in 1..Len(UpperLetters) : UpperLetters[u] = t[k]]
        ELSE t[k]]

\* sub in t
Contains(t, sub) == \E i \in 1..Len(t) : HasAt(t, i, sub)

\* the messages of the APIErrors _do_request raises
TimedOutMessage(timeout) ==
    <<"R", "e", "q", "u", "e", "s", "t", " ", "t", "i", "m", "e", "d", " ", "o", "u", "t",
        " ", "a", "f", "t", "e", "r", " ">> \o Chars(timeout) \o <<"s">>
NetworkMessage == <<"N", "e", "t", "w", "o", "r", "k", " ", "e", "r", "r", "o", "r", " ", "-",
        " ", "c", "o", "u", "l", "d", " ", "n", "o", "t", " ", "c", "o", "n", "n", "e", "c",
        "t", " ", "t", "o", " ", "b", "a", "c", "k", "e", "n", "d">>
RetryMessage == <<"R", "e", "q", "u", "e", "s", "t", " ", "f", "a", "i", "l", "e", "d", " ",
        "a", "f", "t", "e", "r", " ", "3", " ", "a", "t", "t", "e", "m", "p", "t", "s">>
HttpMessage == <<"H", "T", "T", "P", " ", "5", "0", "0", " ", "e", "r", "r", "o", "r">>

NoStatus == 0      \* status_code None

\* the body of _do_request for one attempt: the response, or the exception
\* that leaves the body; every httpx exception is turned into an APIError
\* inside the body
attempt_request(outcome, timeout) ==
    IF outcome = "ok"
    THEN [raised |-> None, message |-> <<>>, status_code |-> NoStatus]
    ELSE IF outcome = "HTTP 500"
    THEN [raised |-> "APIError", message |-> HttpMessage, status_code |-> 500]
    ELSE IF IsTimeoutException(outcome)
    THEN [raised |-> "APIError", message |-> TimedOutMessage(timeout), status_code |-> NoStatus]
    ELSE IF IsTransportError(outcome)
    THEN [raised |-> "APIError", message |-> NetworkMessage, status_code |-> NoStatus]
    ELSE [raised |-> "APIError", message |-> RetryMessage, status_code |-> NoStatus]

\* retry=retry_if_exception_type((httpx.TransportError, httpx.ReadTimeout))
RetriedTypes == {"TransportError", "ReadTimeout"}

\* the tenacity wrapper of _do_request: the body is called again while it
\* raises an exception of a retried type and attempts are left; reraise=True
\* hands the last exception to the caller
RECURSIVE do_request(_, _, _)
do_request(script, timeout, attempt) ==
    LET out == attempt_request(script[attempt], timeout)
    IN  IF out.raised \in RetriedTypes /\ attempt < stop_after_attempt
        THEN do_request(script, timeout, attempt + 1)
        ELSE [calls |-> attempt, raised |-> out.raised, message |-> out.message,
              status_code |-> out.status_code]

\* map_api_error_to_user_message for an APIError
map_api_error_to_user_message(error) ==
    LET message == str_lower(error.message)
    IN  IF error.status_code = 404 THEN "The requested resource was not found."
        ELSE IF error.status_code = 400 THEN "Invalid request"
        ELSE IF error.status_code = 401 THEN "Authentication required."
        ELSE IF error.status_code = 403 THEN "Access denied."
        ELSE IF error.status_code = 429 THEN "Too many requests."
        ELSE IF error.status_code # NoStatus /\ 500 <= error.status_code /\ error.status_code < 600
        THEN "Backend server error."
        ELSE IF error.status_code = NoStatus /\ Contains(message, <<"t", "i", "m", "e", "o",
        "u", "t">>)
        THEN "Request timed out. The server might be busy. Please try again."
        ELSE IF error.status_code = NoStatus
                /\ (Contains(message, <<"n", "e", "t", "w", "o", "r",
        "k">>) \/ Contains(message, <<"c", "o", "n", "n", "e", "c", "t">>))
        THEN "Cannot connect to the backend."
        ELSE IF error.status_code = NoStatus /\ Contains(message, <<"r", "e", "t", "r", "y">>)
        THEN "Request failed after multiple attempts."
        ELSE "API Error"

ApiInit ==
    /\ ClassifierIdle
    /\ OthersIdle("api")
    /\ api = Idle

\* await client.get(path, timeout=timeout), and the dashboard's mapping of
\* the APIError it raises
ApiRequest(script, timeout) ==
    LET out == do_request(script, timeout, 1)
    IN  /\ api' = <<[script |-> script, timeout |-> timeout, calls |-> out.calls,
                     raised |-> out.raised, message |-> out.message,
                     status_code |-> out.status_code,
                     user_message |-> IF out.raised = None THEN None
                                      ELSE map_api_error_to_user_message(out)]>>
        /\ UNCHANGED classifierVars /\ OthersUnchanged("api")

ApiNext == \E script \in Scripts, timeout \in Timeouts : ApiRequest(script, timeout)

ApiSpec == ApiInit /\ [][ApiNext]_vars

\* the attempts up to the first one that is not a connection failure
FirstSettled(script) ==
    IF \E k \in 1..Len(script) : script[k] # "ConnectError"
    THEN CHOOSE k \in 1..Len(script) :
            script[k] # "ConnectError" /\ \A j \in 1..(k - 1) : script[j] = "ConnectError"
    ELSE Len(script) + 1

\* C23: a request whose attempts fail with connection errors is attempted
\* until the first success or until 3 attempts were made: it returns the
\* response when one comes within 3 attempts, after as many calls as that
\* took, and otherwise raises APIError after exactly 3 calls.
C23_RetriesThreeTimes ==
    api # Idle =>
        LET first == FirstSettled(api[1].script)
        IN  /\ (first <= stop_after_attempt /\ api[1].script[first] = "ok")
                  => (api[1].raised = None /\ api[1].calls = first)
            /\ first > stop_after_attempt
                  => (api[1].raised = "APIError" /\ api[1].calls = stop_after_attempt)

\* C24: a request that times out raises an APIError without status code
\* whose message says it timed out, and the user message for it is the
\* timed-out one, not the generic fallback.
C24_TimeoutReported ==
    (api # Idle /\ IsTimeoutException(api[1].script[api[1].calls]))
        => /\ api[1].raised = "APIError"
           /\ api[1].status_code = NoStatus
           /\ api[1].message = TimedOutMessage(api[1].timeout)
           /\ api[1].user_message = "Request timed out. The server might be busy. Please try again."

(* ===================== verdict and explanation ========================= *)
\* C25: in every result predict returns, under the configured threshold,
\* is_fake true goes with reasons other than ["Review appears genuine"].
C25_VerdictMatchesReasons ==
    clf # <<>> =>
        \A in \in PredictInputs :
            (Outcome(in).ok /\ Outcome(in).result.is_fake)
                => Outcome(in).result.reasons # <<Reason("Review appears genuine")>>

(* ====================== the /batch endpoint's counts =================== *)
\* the positions of a response's entries that are error entries, and the
\* ones classified as genuine
ErrorEntries(results) == {k \in 1..Len(results) : "error" \in DOMAIN results[k]}

GenuineEntries(results) ==
    {k \in 1..Len(results) : "error" \notin DOMAIN results[k] /\ ~results[k].is_fake}

\* C26: in a /batch response, genuine_count is the number of rows classified
\* with is_fake false, and fake_count + genuine_count + the number of error
\* entries is total_reviews.
C26_CountsPartition ==
    (batch # Idle /\ batch.returned /\ batch.op = "batch_check" /\ batch.out[1].ok)
        => /\ batch.out[1].genuine_count = Cardinality(GenuineEntries(batch.out[1].results))
           /\ batch.out[1].fake_count + batch.out[1].genuine_count
                + Cardinality(ErrorEntries(batch.out[1].results))
              = batch.out[1].total_reviews

\* C27: /batch answers a CSV without the text or the rating column with
\* status 400, never with 500.
C27_MissingColumnIs400 ==
    (batch # Idle /\ batch.returned /\ batch.op = "batch_check" /\ ~batch.has_columns)
        => batch.out[1].status = 400

(* ======================= the best model's identity ===================== *)
\* C28: after any sequence of train_all_models calls, when best_model is not
\* None, best_model_name is a key of trained_models and best_model is the
\* object stored there, so save_best_model and save_model(best_model_name)
\* write the same model.
C28_BestIsStored ==
    (trainer # Idle /\ trainer.best_model # NoModel)
        => /\ trainer.best_model_name \in ModelNames
           /\ trainer.trained_models[trainer.best_model_name] = trainer.best_model
           /\ trainer.saved_after = trainer.calls
                => trainer.saved_best = trainer.saved_models[trainer.best_model_name]

(* ===================== the evaluator's class names ===================== *)
\* C29: the class name the evaluator reports the metrics of code k under is
\* the label the fitted encoder decodes k to, for the codes 0 and 1 of a
\* label column with the two classes.
C29_ClassNamesDecode ==
    (encoder # Idle /\ Len(encoder.metrics) = 2)
        => \A k \in 1..2 : encoder.metrics[k].class_name = encoder.metrics[k].label

(* ========================== deletion requests ========================== *)
NumCalls == 2
CallIds == 1..NumCalls

\* review ids a call may name; only the first is a row of the reviews table
ReviewIds == {1, 2}
StoredReviews == {1}

\* DeletionStatus
DeletionStatuses == {"pending", "approved", "rejected", "submitted", "completed", "failed"}
OpenStatuses == {"pending", "submitted"}

\* the open deletion requests of a review
OpenRequests(rows, review_id) ==
    {k \in 1..Len(rows) : rows[k].review_id = review_id /\ rows[k].status \in OpenStatuses}

\* the table holds nothing, or one earlier request for the stored review;
\* every call has its own database session
DeletionInit ==
    /\ ClassifierIdle
    /\ OthersIdle("deletions")
    /\ \E rows \in {<<>>} \cup {<<[review_id |-> 1, status |-> st]>> : st \in DeletionStatuses},
          targets \in [CallIds -> ReviewIds] :
            deletions = [rows |-> rows,
                         calls |-> [c \in CallIds |->
                                      [review_id |-> targets[c], pc |-> "start",
                                       status |-> 0, created |-> 0]]]

Answer(c, status) ==
    deletions' = [deletions EXCEPT !.calls[c].pc = "done", !.calls[c].status = status]

\* db.query(Review).filter(Review.id == review_id).first(); 404 if none
FindReview(c) ==
    /\ deletions.calls[c].pc = "start"
    /\ IF deletions.calls[c].review_id \in StoredReviews
       THEN deletions' = [deletions EXCEPT !.calls[c].pc = "found"]
       ELSE Answer(c, 404)
    /\ UNCHANGED classifierVars /\ OthersUnchanged("deletions")

\* the query for a PENDING or SUBMITTED request of the review; 400 if one
CheckExisting(c) ==
    /\ deletions.calls[c].pc = "found"
    /\ IF OpenRequests(deletions.rows, deletions.calls[c].review_id) # {}
       THEN Answer(c, 400)
       ELSE deletions' = [deletions EXCEPT !.calls[c].pc = "checked"]
    /\ UNCHANGED classifierVars /\ OthersUnchanged("deletions")

\* db.add(DeletionRequest(..., status=PENDING)); db.commit(); the answer
InsertRequest(c) ==
    /\ deletions.calls[c].pc = "checked"
    /\ deletions' = [deletions EXCEPT
          !.rows = Append(@, [review_id |-> deletions.calls[c].review_id,
                              status |-> "pending"]),
          !.calls[c].pc = "done", !.calls[c].status = 200,
          !.calls[c].created = Len(deletions.rows) + 1]
    /\ UNCHANGED classifierVars /\ OthersUnchanged("deletions")

DeletionNext == \E c \in CallIds : FindReview(c) \/ CheckExisting(c) \/ InsertRequest(c)

DeletionSpec == DeletionInit /\ [][DeletionNext]_vars

\* C30: a review never has more than one PENDING or SUBMITTED deletion
\* request, whatever the interleaving of the calls; a call answered 400 or
\* 404 created nothing.
C30_OneOpenRequest ==
    deletions # Idle =>
        /\ \A r \in ReviewIds : Cardinality(OpenRequests(deletions.rows, r)) <= 1
        /\ \A c \in CallIds :
              deletions.calls[c].status \in {400, 404} => deletions.calls[c].created = 0

====
